---------------------------- MODULE Spec2Model ----------------------------
(***************************************************************************)
(* Model of the waybar CPU module (config/waybar/scripts/waybar-cpu.py).   *)
(*                                                                         *)
(* One invocation of the script is a straight-line program: load the       *)
(* pickled history, read the sensors, sample the RAPL energy counter,      *)
(* append to the usage FIFO, blend the per-core EMA, render the tooltip,   *)
(* save the history, handle the click, print one JSON line.  The script    *)
(* has no outermost try/except: an exception outside one of its local      *)
(* try blocks ends the process with a traceback and a non-zero status.     *)
(*                                                                         *)
(* Numbers.  Python floats are modelled as exact rationals:                *)
(*   - percentages are integers in units of 1/Scale percent;               *)
(*   - energies (microjoules) and powers (microwatts) are unbounded        *)
(*     integers, kept as two limbs in base 10^6 because the counter        *)
(*     values of interest (4 000 000 000, 2^32) do not fit the 32-bit      *)
(*     integers TLC computes with.                                         *)
(***************************************************************************)
EXTENDS Integers, Sequences, FiniteSets, TLC

VARIABLES
    \* ---- the persisted history file (shared by every invocation)
    file,
    \* ---- one sequential invocation of the script
    pc,                 \* position in the script
    fault,              \* the uncaught exception that ended it, or "none"
    runs,               \* invocations started so far
    history,            \* value returned by load_history()
    cpu_history,        \* history.get('cpu', ...)
    per_core_history,   \* history.get('per_core', ...)
    max_cpu_temp,
    freq,               \* <<current_freq, max_freq>>
    cpu_power,          \* microwatts, two limbs
    cpu_percent,
    per_core,           \* psutil.cpu_percent(percpu=True)
    tooltip,            \* the rendered parts of tooltip_lines
    saved,              \* outcome of save_history: "no" | "ok" | "failed"
    stdout,             \* JSON lines printed by this invocation
    exit_code,          \* -1 while running
    \* ---- two unsynchronised invocations racing on the file
    cpc,                \* position of each of the two processes
    chist,              \* their cpu_history / per_core_history
    cout,               \* their JSON lines, exit status and fault
    cruns,              \* invocations started so far
    craced,             \* two invocations have overlapped on the file
    \* ---- the RAPL power block on its own
    ppc, pin, pout,
    \* ---- get_color on its own
    colpc, colvalue, colkind, colresult

seqvars  == <<pc, fault, runs, history, cpu_history, per_core_history,
              max_cpu_temp, freq, cpu_power, cpu_percent, per_core,
              tooltip, saved, stdout, exit_code>>
concvars == <<cpc, chist, cout, cruns, craced>>
powvars  == <<ppc, pin, pout>>
colvars  == <<colpc, colvalue, colkind, colresult>>
vars     == <<file, seqvars, concvars, powvars, colvars>>

---------------------------------------------------------------------------
(* Bounds of the model *)

\* invocations in one behaviour
MaxRuns == 2
\* largest number of logical cores sampled
MaxCores == 32

(* Program constants *)

TOOLTIP_WIDTH == 50
\* decay_factor = 0.95, in hundredths
decay_factor == 95
\* range(6) x range(4)
GRID_ROWS == 6
GRID_COLS == 4

---------------------------------------------------------------------------
(* Percentages: exact rationals in units of 1/Scale percent.  A value     *)
(* that went through j EMA blends is a multiple of 20^(MaxRuns - j), so    *)
(* every blend a behaviour can perform is exact.                           *)

Scale == 20 ^ (MaxRuns + 1)
Pct(p) == p * Scale
\* p + 1/2 percent
PctHalf(p) == (2 * p + 1) * (Scale \div 2)

(* Unbounded integers in base 10^6: n = hi * 10^6 + lo, 0 <= lo < 10^6.    *)
Base == 10 ^ 6
Norm(h, l) == [hi |-> h + (l \div Base), lo |-> l % Base]
Big(h, l) == Norm(h, l)
BAdd(a, b) == Norm(a.hi + b.hi, a.lo + b.lo)
BSub(a, b) == Norm(a.hi - b.hi, a.lo - b.lo)
BNeg(a) == a.hi < 0
BMul(a, c) == Norm(a.hi * c, a.lo * c)
BZero == Big(0, 0)

---------------------------------------------------------------------------
(* THEME & COLORS *)

COLORS ==
    [black |-> "#000000", red |-> "#ff0000", green |-> "#00ff00",
     yellow |-> "#ffff00", blue |-> "#0000ff", magenta |-> "#ff00ff",
     cyan |-> "#00ffff", white |-> "#ffffff", bright_black |-> "#555555",
     bright_red |-> "#ff5555", bright_green |-> "#55ff55",
     bright_yellow |-> "#ffff55", bright_blue |-> "#5555ff",
     bright_magenta |-> "#ff55ff", bright_cyan |-> "#55ffff",
     bright_white |-> "#ffffff"]

COLOR_TABLE ==
    << [color |-> COLORS.blue,          cpu_gpu_temp |-> <<0, 35>>,   cpu_power |-> <<0, 30>>],
       [color |-> COLORS.cyan,          cpu_gpu_temp |-> <<36, 45>>,  cpu_power |-> <<31, 60>>],
       [color |-> COLORS.green,         cpu_gpu_temp |-> <<46, 54>>,  cpu_power |-> <<61, 90>>],
       [color |-> COLORS.yellow,        cpu_gpu_temp |-> <<55, 65>>,  cpu_power |-> <<91, 120>>],
       [color |-> COLORS.bright_yellow, cpu_gpu_temp |-> <<66, 75>>,  cpu_power |-> <<121, 150>>],
       [color |-> COLORS.bright_red,    cpu_gpu_temp |-> <<76, 85>>,  cpu_power |-> <<151, 180>>],
       [color |-> COLORS.red,           cpu_gpu_temp |-> <<86, 999>>, cpu_power |-> <<181, 999>> ] >>

MetricKinds == {"cpu_gpu_temp", "cpu_power"}

\* entry[metric_type]
BandRange(entry, metric_type) ==
    IF metric_type = "cpu_gpu_temp" THEN entry.cpu_gpu_temp ELSE entry.cpu_power

\* low <= value <= high, for the rational value num/den
InBand(entry, num, den, metric_type) ==
    LET r == BandRange(entry, metric_type)
    IN  r[1] * den <= num /\ num <= r[2] * den

\* get_color(value, metric_type) for value = num/den.  The script never
\* passes None or a non-number, so the two "#ffffff" returns are not taken.
get_color(num, den, metric_type) ==
    LET hits == {i \in 1..Len(COLOR_TABLE) :
                    InBand(COLOR_TABLE[i], num, den, metric_type)}
    IN  IF hits # {}
        THEN COLOR_TABLE[CHOOSE i \in hits : \A j \in hits : i <= j].color
        ELSE COLOR_TABLE[Len(COLOR_TABLE)].color

\* get_core_color(usage), usage in units of 1/Scale percent
get_core_color(usage) ==
    IF usage < Pct(20) THEN "#81c8be"
    ELSE IF usage < Pct(40) THEN "#a6d189"
    ELSE IF usage < Pct(60) THEN "#e5c890"
    ELSE IF usage < Pct(80) THEN "#ef9f76"
    ELSE IF usage < Pct(95) THEN "#ea999c"
    ELSE "#e78284"

---------------------------------------------------------------------------
(* HISTORY: python objects that can come out of the pickle *)

EmptyMap == <<>>

\* a value stored under 'cpu': a deque(maxlen), a list, or something
\* without append (type "int"); "absent" when the key is missing
CpuVal(t, items, maxlen) == [type |-> t, items |-> items, maxlen |-> maxlen]
\* a value stored under 'per_core': a dict, or something that is no
\* container (type "int"); "absent" when the key is missing
PcVal(t, m) == [type |-> t, map |-> m]

\* deque(maxlen=TOOLTIP_WIDTH)
FreshDeque == CpuVal("deque", <<>>, TOOLTIP_WIDTH)
FreshPerCore == PcVal("dict", EmptyMap)
AbsentCpu == CpuVal("absent", <<>>, 0)
AbsentPc == PcVal("absent", EmptyMap)

Obj(t, cpu, pcore) == [type |-> t, cpu |-> cpu, per_core |-> pcore]
\* {'cpu': deque(maxlen=TOOLTIP_WIDTH), 'per_core': {}}
FreshSnapshot == Obj("dict", FreshDeque, FreshPerCore)
NoObj == Obj("none", AbsentCpu, AbsentPc)

\* the file: missing, unreadable (permissions), truncated (a partial
\* write), garbage (not a pickle), or a complete pickle of some object
FileKinds == {"missing", "unreadable", "truncated", "garbage", "pickle"}
NoPickle(kind) == [kind |-> kind, obj |-> NoObj]
Pickled(obj) == [kind |-> "pickle", obj |-> obj]

\* load_history(): any exception of open/pickle.load gives the fresh dict;
\* whatever object unpickles is returned as it is
load_history(f) ==
    IF f.kind = "pickle" THEN f.obj ELSE FreshSnapshot

\* history.get(...) exists only on a mapping
HasGet(h) == h.type = "dict"
\* history.get('cpu', deque(maxlen=TOOLTIP_WIDTH))
GetCpu(h) == IF h.cpu.type = "absent" THEN FreshDeque ELSE h.cpu
\* history.get('per_core', {})
GetPerCore(h) == IF h.per_core.type = "absent" THEN FreshPerCore ELSE h.per_core

\* cpu_history.append(x): a deque drops its oldest item when over maxlen,
\* a list just grows
CanAppend(c) == c.type \in {"deque", "list"}
DequeAppend(c, x) ==
    LET s == Append(c.items, x)
    IN  IF c.type = "deque" /\ Len(s) > c.maxlen
        THEN [c EXCEPT !.items = SubSeq(s, Len(s) - c.maxlen + 1, Len(s))]
        ELSE [c EXCEPT !.items = s]

\* the blend with its two weights exchanged
BlendSwapped(old, usage) == (old * (100 - decay_factor) + usage * decay_factor) \div 100

\* per_core_history[i] * decay_factor + usage * (1 - decay_factor)
Blend(old, usage) == (old * decay_factor + usage * (100 - decay_factor)) \div 100

\* the loop over enumerate(per_core)
CanIndex(p) == p.type = "dict"
UpdatePerCore(p, sample) ==
    [p EXCEPT !.map =
        [i \in (DOMAIN p.map) \cup (DOMAIN sample) |->
            IF i \notin DOMAIN sample THEN p.map[i]
            ELSE IF i \notin DOMAIN p.map THEN sample[i]
            ELSE Blend(p.map[i], sample[i])]]

\* pickle.dump({'cpu': cpu_hist, 'per_core': per_core_hist}, f)
Dump(cpu_hist, per_core_hist) == Pickled(Obj("dict", cpu_hist, per_core_hist))


---------------------------------------------------------------------------
(* HARDWARE DETECTION and the Power (RAPL) block *)

BDiv(a, c) == Norm(a.hi \div c, ((a.hi % c) * Base + a.lo) \div c)

\* "intel-rapl:0" in p or "package" in p
PathNames == {"intel-rapl", "intel-rapl:0", "intel-rapl:1", "amd-package"}
Preferred(p) == p \in {"intel-rapl:0", "amd-package"}

\* get_rapl_path(): None when the powercap directory is missing or holds no
\* energy_uj file; else the first preferred path, else the first path
get_rapl_path(base, paths) ==
    IF ~base THEN "None"
    ELSE LET pref == {i \in 1..Len(paths) : Preferred(paths[i])}
         IN  IF pref # {} THEN paths[CHOOSE i \in pref : \A j \in pref : i <= j]
             ELSE IF Len(paths) > 0 THEN paths[1]
             ELSE "None"

\* the outcome of open(...).read() + int(...): a value, or an exception
ReadOk(v) == [ok |-> TRUE, v |-> v]
ReadFail == [ok |-> FALSE, v |-> BZero]
\* max_energy_range_uj: absent, present and parsed, or present and unusable
MaxAbsent == [state |-> "absent", v |-> BZero]
MaxBad == [state |-> "bad", v |-> BZero]
MaxOk(v) == [state |-> "ok", v |-> v]

\* 2**32
Wrap32 == Big(4294, 967296)

\* (delta / 1_000_000) / 0.05 watts, kept in microwatts: delta * 100 / 5
PowerOf(delta) == BDiv(BMul(delta, 100), 5)

\* the overflow branch with the second read subtracted
WrapDeltaMinus(max_e, energy1, energy2) == BSub(BSub(max_e, energy2), energy1)

\* the overflow branch: (max_e + energy2) - energy1
WrapDelta(max_e, energy1, energy2) == BSub(BAdd(max_e, energy2), energy1)

RaplResult(used, delta, power) == [used |-> used, delta |-> delta, cpu_power |-> power]
RaplNone == RaplResult(FALSE, BZero, BZero)

\* lines 156-176.  in = [base, paths, r1, r2, maxf].  "used" tells whether
\* line 175 was reached, delta is then the delta it divided.
RaplBlock(in) ==
    IF get_rapl_path(in.base, in.paths) = "None" THEN RaplNone
    ELSE IF ~in.r1.ok \/ ~in.r2.ok THEN RaplNone
    ELSE LET delta == BSub(in.r2.v, in.r1.v)
         IN  IF ~BNeg(delta) THEN RaplResult(TRUE, delta, PowerOf(delta))
             ELSE IF in.maxf.state = "ok"
                  THEN LET d == WrapDelta(in.maxf.v, in.r1.v, in.r2.v)
                       IN  RaplResult(TRUE, d, PowerOf(d))
             ELSE IF in.maxf.state = "absent"
                  THEN LET d == WrapDelta(Wrap32, in.r1.v, in.r2.v)
                       IN  RaplResult(TRUE, d, PowerOf(d))
             ELSE RaplNone

RaplIn(base, paths, r1, r2, maxf) ==
    [base |-> base, paths |-> paths, r1 |-> r1, r2 |-> r2, maxf |-> maxf]

---------------------------------------------------------------------------
(* Sensors *)

\* readings of the known chip labels, in tenths of a degree; int() truncates
TempFold(reads) ==
    LET F[n \in 0..Len(reads)] ==
            IF n = 0 THEN 0
            ELSE IF reads[n] > F[n - 1] * 10 THEN reads[n] \div 10 ELSE F[n - 1]
    IN  F[Len(reads)]

\* lines 133-144: an exception of psutil leaves 0
Temperature(t) == IF t.ok THEN TempFold(t.reads) ELSE 0
TempOutcomes == { [ok |-> FALSE, reads |-> <<>>],
                  [ok |-> TRUE,  reads |-> <<>>],
                  [ok |-> TRUE,  reads |-> <<459, 455>>] }

\* lines 147-153: cpu_freq() raises, returns None, or returns (current, max)
Frequency(q) == IF q.ok /\ q.some THEN <<q.current, q.max>> ELSE <<0, 0>>
FreqOutcomes == { [ok |-> FALSE, some |-> FALSE, current |-> 0, max |-> 0],
                  [ok |-> TRUE,  some |-> FALSE, current |-> 0, max |-> 0],
                  [ok |-> TRUE,  some |-> TRUE,  current |-> 2400, max |-> 4800] }

\* psutil.cpu_percent(interval=0.1): 0.0 and 30.5
CpuPercentVals == {Pct(0), PctHalf(30)}

\* psutil.cpu_percent(percpu=True): k cores, usage pattern p
SampleSeq == <<0, 60, 100, 10, 5, 19, 95>>
PerCoreSample(k, p) ==
    [i \in 0..(k - 1) |-> Pct(SampleSeq[((i + p) % Len(SampleSeq)) + 1])]
\* <<k, p>>: 4, 8 and MaxCores cores
CoreInputs == {<<4, 0>>, <<8, 3>>, <<MaxCores, 0>>}

\* the RAPL situations an invocation of the whole script is run with
SeqRaplInputs ==
    { RaplIn(FALSE, <<>>, ReadFail, ReadFail, MaxAbsent),
      RaplIn(TRUE, <<"intel-rapl:0">>, ReadFail, ReadFail, MaxAbsent),
      RaplIn(TRUE, <<"intel-rapl:0">>, ReadOk(Big(0, 100)), ReadOk(Big(2, 100)), MaxAbsent) }

---------------------------------------------------------------------------
(* Tooltip *)

\* one grid cell: a core marker, or substrate filler
CoreCell(idx, color, circle) ==
    [kind |-> "core", core |-> idx, color |-> color, circle |-> circle]
FillerCell(color) ==
    [kind |-> "substrate", core |-> -1, color |-> color, circle |-> ""]

\* lines 237-244, one cell of the grid
GridCell(core_idx, sample, substrate_color) ==
    IF core_idx < Len(sample)
    THEN LET usage == sample[core_idx + 1]
         IN  CoreCell(core_idx, get_core_color(usage),
                      IF usage >= Pct(10) THEN "filled" ELSE "hollow")
    ELSE FillerCell(substrate_color)

\* per_core as a python list (index 0 first)
AsList(sample) == [n \in 1..Cardinality(DOMAIN sample) |-> sample[n - 1]]

\* a grid with as many rows as the sampled cores need
RenderGridByCount(sample, substrate_color) ==
    [row \in 1..((Cardinality(DOMAIN sample) + GRID_COLS - 1) \div GRID_COLS) |->
        [col \in 1..GRID_COLS |->
            GridCell((row - 1) * GRID_COLS + (col - 1), AsList(sample), substrate_color)]]

\* lines 232-247: for row in range(6): for col in range(4)
RenderGrid(sample, substrate_color) ==
    [row \in 1..GRID_ROWS |->
        [col \in 1..GRID_COLS |->
            GridCell((row - 1) * GRID_COLS + (col - 1), AsList(sample), substrate_color)]]

\* lines 201-276: the colours of the summary rows, the die grid and the
\* number of process lines (0 when ps fails)
RenderTooltip(temp, fr, power, percent, sample, procs) ==
    [clock_color |-> IF fr[2] > 0 THEN get_color(fr[1] * 100, fr[2], "cpu_power")
                     ELSE get_color(0, 1, "cpu_power"),
     temp_color  |-> get_color(temp, 1, "cpu_gpu_temp"),
     power_color |-> get_color(power.hi * Base + power.lo, Base, "cpu_power"),
     util_color  |-> get_color(percent, Scale, "cpu_power"),
     grid        |-> RenderGrid(sample, get_color(temp, 1, "cpu_gpu_temp")),
     procs       |-> procs]
NoTooltip ==
    [clock_color |-> "", temp_color |-> "", power_color |-> "", util_color |-> "",
     grid |-> <<>>, procs |-> 0]
ProcLines == {0, 3}

\* lines 284-290: the JSON object
JsonLine(temp, tip) ==
    [text |-> [temp |-> temp, color |-> get_color(temp, 1, "cpu_gpu_temp")],
     tooltip |-> tip, markup |-> "pango", class |-> "cpu"]

\* line 280: os.environ.get("TERMINAL") or shutil.which("alacritty") or "xterm"
Terminal(env_terminal, has_alacritty) ==
    IF env_terminal # "" THEN env_terminal
    ELSE IF has_alacritty THEN "alacritty"
    ELSE "xterm"
\* the binaries Popen can start
Installed(has_alacritty, has_xterm) ==
    {"kitty"} \cup (IF has_alacritty THEN {"alacritty"} ELSE {})
              \cup (IF has_xterm THEN {"xterm"} ELSE {})
EnvTerminals == {"", "kitty", "ghostty"}
ClickTypes == {"", "left", "right"}


---------------------------------------------------------------------------
(* The history files an invocation can find.  /tmp is shared: besides the  *)
(* files the script writes itself there are pickles of other objects.      *)

\* 49 earlier samples, oldest first
OldSamples == [n \in 1..(TOOLTIP_WIDTH - 1) |-> Pct(n)]
\* a list of TOOLTIP_WIDTH samples
FullList == [n \in 1..TOOLTIP_WIDTH |-> Pct(n)]
\* EMA of six cores, all at 50.0
OldCores == [i \in 0..5 |-> Pct(50)]

InitialFiles ==
    { NoPickle("missing"), NoPickle("unreadable"),
      NoPickle("truncated"), NoPickle("garbage"),
      \* written by an earlier run of the script
      Pickled(Obj("dict", CpuVal("deque", OldSamples, TOOLTIP_WIDTH),
                          PcVal("dict", OldCores))),
      \* pickles that are no snapshot
      Pickled(Obj("list", AbsentCpu, AbsentPc)),
      Pickled(Obj("dict", AbsentCpu, AbsentPc)),
      Pickled(Obj("dict", CpuVal("list", FullList, 0), PcVal("dict", EmptyMap))),
      Pickled(Obj("dict", CpuVal("int", <<>>, 0), PcVal("dict", EmptyMap))),
      Pickled(Obj("dict", CpuVal("deque", <<>>, TOOLTIP_WIDTH), PcVal("int", EmptyMap))) }

\* save_history(): the write succeeds; or open() fails and the file stays;
\* or the write stops after open() truncated the file.  Every exception is
\* swallowed.
SaveOutcomes == {"ok", "open_failed", "interrupted"}
save_history(f, how, cpu_hist, per_core_hist) ==
    IF how = "ok" THEN Dump(cpu_hist, per_core_hist)
    ELSE IF how = "open_failed" THEN f
    ELSE NoPickle("truncated")

---------------------------------------------------------------------------
(* One invocation after the other *)

\* the parts of the state a specification does not use stay as they are
ConcIdle == cpc = <<>> /\ chist = <<>> /\ cout = <<>> /\ cruns = 0 /\ craced = FALSE
PowIdle == ppc = "idle" /\ pin = <<>> /\ pout = RaplNone
ColIdle == colpc = "idle" /\ colvalue = 0 /\ colkind = "" /\ colresult = ""
SeqFrame == UNCHANGED <<concvars, powvars, colvars>>

SeqIdle ==
    /\ pc = "idle" /\ fault = "none" /\ runs = 0
    /\ history = NoObj /\ cpu_history = AbsentCpu /\ per_core_history = AbsentPc
    /\ max_cpu_temp = 0 /\ freq = <<0, 0>> /\ cpu_power = BZero
    /\ cpu_percent = 0 /\ per_core = EmptyMap /\ tooltip = NoTooltip
    /\ saved = "no" /\ stdout = <<>> /\ exit_code = -1

\* an uncaught exception: traceback on stderr, exit status 1, nothing more
Raise(what) ==
    /\ pc' = "done" /\ fault' = what /\ exit_code' = 1

\* the process starts; line 128: history = load_history()
Load ==
    /\ pc \in {"idle", "done"}
    /\ runs < MaxRuns
    /\ runs' = runs + 1
    /\ pc' = "get"
    /\ fault' = "none" /\ exit_code' = -1 /\ stdout' = <<>> /\ saved' = "no"
    /\ history' = load_history(file)
    /\ cpu_history' = AbsentCpu /\ per_core_history' = AbsentPc
    /\ max_cpu_temp' = 0 /\ freq' = <<0, 0>> /\ cpu_power' = BZero
    /\ cpu_percent' = 0 /\ per_core' = EmptyMap /\ tooltip' = NoTooltip
    /\ UNCHANGED file
    /\ SeqFrame

\* lines 129-130: history.get('cpu', ...), history.get('per_core', ...)
Get ==
    /\ pc = "get"
    /\ IF HasGet(history)
       THEN /\ cpu_history' = GetCpu(history)
            /\ per_core_history' = GetPerCore(history)
            /\ pc' = "sensors"
            /\ UNCHANGED <<fault, exit_code>>
       ELSE /\ Raise("AttributeError: get")
            /\ UNCHANGED <<cpu_history, per_core_history>>
    /\ UNCHANGED <<file, runs, history, max_cpu_temp, freq, cpu_power,
                   cpu_percent, per_core, tooltip, saved, stdout>>
    /\ SeqFrame

\* lines 132-153: temperature and frequency
ReadSensors ==
    /\ pc = "sensors"
    /\ \E t \in TempOutcomes, q \in FreqOutcomes :
          /\ max_cpu_temp' = Temperature(t)
          /\ freq' = Frequency(q)
    /\ pc' = "power"
    /\ UNCHANGED <<file, fault, runs, history, cpu_history, per_core_history,
                   cpu_power, cpu_percent, per_core, tooltip, saved, stdout,
                   exit_code>>
    /\ SeqFrame

\* lines 155-176
Power ==
    /\ pc = "power"
    /\ \E in \in SeqRaplInputs : cpu_power' = RaplBlock(in).cpu_power
    /\ pc' = "cpu"
    /\ UNCHANGED <<file, fault, runs, history, cpu_history, per_core_history,
                   max_cpu_temp, freq, cpu_percent, per_core, tooltip, saved,
                   stdout, exit_code>>
    /\ SeqFrame

\* lines 178-179: cpu_history.append(cpu_percent)
CpuPercent ==
    /\ pc = "cpu"
    /\ \E x \in CpuPercentVals :
          /\ cpu_percent' = x
          /\ IF CanAppend(cpu_history)
             THEN /\ cpu_history' = DequeAppend(cpu_history, x)
                  /\ pc' = "percore"
                  /\ UNCHANGED <<fault, exit_code>>
             ELSE /\ Raise("AttributeError: append")
                  /\ UNCHANGED cpu_history
    /\ UNCHANGED <<file, runs, history, per_core_history, max_cpu_temp, freq,
                   cpu_power, per_core, tooltip, saved, stdout>>
    /\ SeqFrame

\* lines 181-188: the per-core EMA
PerCore ==
    /\ pc = "percore"
    /\ \E c \in CoreInputs :
          /\ per_core' = PerCoreSample(c[1], c[2])
          /\ IF CanIndex(per_core_history)
             THEN /\ per_core_history' = UpdatePerCore(per_core_history, PerCoreSample(c[1], c[2]))
                  /\ pc' = "render"
                  /\ UNCHANGED <<fault, exit_code>>
             ELSE /\ Raise("TypeError: per_core_history")
                  /\ UNCHANGED per_core_history
    /\ UNCHANGED <<file, runs, history, cpu_history, max_cpu_temp, freq,
                   cpu_power, cpu_percent, tooltip, saved, stdout>>
    /\ SeqFrame

\* lines 198-276: the tooltip
Render ==
    /\ pc = "render"
    /\ \E procs \in ProcLines :
          tooltip' = RenderTooltip(max_cpu_temp, freq, cpu_power, cpu_percent,
                                   per_core, procs)
    /\ pc' = "save"
    /\ UNCHANGED <<file, fault, runs, history, cpu_history, per_core_history,
                   max_cpu_temp, freq, cpu_power, cpu_percent, per_core, saved,
                   stdout, exit_code>>
    /\ SeqFrame

\* line 278: save_history(cpu_history, per_core_history)
Save ==
    /\ pc = "save"
    /\ \E how \in SaveOutcomes :
          /\ file' = save_history(file, how, cpu_history, per_core_history)
          /\ saved' = IF how = "ok" THEN "ok" ELSE "failed"
    /\ pc' = "click"
    /\ UNCHANGED <<fault, runs, history, cpu_history, per_core_history,
                   max_cpu_temp, freq, cpu_power, cpu_percent, per_core,
                   tooltip, stdout, exit_code>>
    /\ SeqFrame

\* lines 280-282: Popen raises FileNotFoundError when the terminal binary
\* is not installed
Click ==
    /\ pc = "click"
    /\ \E click \in ClickTypes, env \in EnvTerminals, ala \in BOOLEAN, xt \in BOOLEAN :
          IF click = "left" /\ Terminal(env, ala) \notin Installed(ala, xt)
          THEN Raise("FileNotFoundError: Popen")
          ELSE pc' = "print" /\ UNCHANGED <<fault, exit_code>>
    /\ UNCHANGED <<file, runs, history, cpu_history, per_core_history,
                   max_cpu_temp, freq, cpu_power, cpu_percent, per_core,
                   tooltip, saved, stdout>>
    /\ SeqFrame

\* lines 284-290: print(json.dumps(...)), then the script ends
PrintJson ==
    /\ pc = "print"
    /\ stdout' = Append(stdout, JsonLine(max_cpu_temp, tooltip))
    /\ pc' = "done"
    /\ exit_code' = 0
    /\ UNCHANGED <<file, fault, runs, history, cpu_history, per_core_history,
                   max_cpu_temp, freq, cpu_power, cpu_percent, per_core,
                   tooltip, saved>>
    /\ SeqFrame

Init ==
    /\ file \in InitialFiles
    /\ SeqIdle /\ ConcIdle /\ PowIdle /\ ColIdle

Next ==
    \/ Load \/ Get \/ ReadSensors \/ Power \/ CpuPercent \/ PerCore
    \/ Render \/ Save \/ Click \/ PrintJson

Spec == Init /\ [][Next]_vars


---------------------------------------------------------------------------
(* Two unsynchronised invocations of the script on the same history file.  *)
(* Only load_history and save_history touch the file, so the steps         *)
(* between them are taken at once.  save_history is two steps: open(...,   *)
(* 'wb') truncates the file, the buffered pickle is written when the file  *)
(* is closed.                                                              *)

Procs == {1, 2}
MaxConcRuns == MaxRuns + 1

\* cpu_percent and <<k, p>> of an invocation
ConcInputs == { <<Pct(0), <<4, 0>>>>, <<PctHalf(30), <<8, 3>>>> }

Locals(cpu, pcore) == [cpu |-> cpu, per_core |-> pcore]
NoLocals == Locals(AbsentCpu, AbsentPc)
Out(lines, code, what, later) ==
    [lines |-> lines, code |-> code, fault |-> what, later |-> later]

\* a process between its load and the end of its save
InFlight(p) == cpc[p] \in {"update", "save", "write"}

ConcFrame == UNCHANGED <<seqvars, powvars, colvars>>

ConcInit ==
    /\ file \in { NoPickle("missing"),
                  Pickled(Obj("dict", CpuVal("deque", OldSamples, TOOLTIP_WIDTH),
                                      PcVal("dict", OldCores))) }
    /\ cpc = [p \in Procs |-> "idle"]
    /\ chist = [p \in Procs |-> NoLocals]
    /\ cout = [p \in Procs |-> Out(0, -1, "none", FALSE)]
    /\ cruns = 0
    /\ craced = FALSE
    /\ SeqIdle /\ PowIdle /\ ColIdle

\* the process starts; lines 128-130
CLoad(p) ==
    /\ cpc[p] \in {"idle", "done"}
    /\ cruns < MaxConcRuns
    /\ cruns' = cruns + 1
    /\ LET h == load_history(file)
       IN  IF HasGet(h)
           THEN /\ chist' = [chist EXCEPT ![p] = Locals(GetCpu(h), GetPerCore(h))]
                /\ cpc' = [cpc EXCEPT ![p] = "update"]
                /\ cout' = [cout EXCEPT ![p] = Out(0, -1, "none", craced)]
           ELSE /\ chist' = [chist EXCEPT ![p] = NoLocals]
                /\ cpc' = [cpc EXCEPT ![p] = "done"]
                /\ cout' = [cout EXCEPT ![p] = Out(0, 1, "AttributeError: get", craced)]
    /\ craced' = (craced \/ \E q \in Procs \ {p} : InFlight(q))
    /\ UNCHANGED file
    /\ ConcFrame

\* lines 132-276: sensors, append, per-core EMA, tooltip
CUpdate(p) ==
    /\ cpc[p] = "update"
    /\ \E in \in ConcInputs :
          LET sample == PerCoreSample(in[2][1], in[2][2])
          IN  IF CanAppend(chist[p].cpu) /\ CanIndex(chist[p].per_core)
              THEN /\ chist' = [chist EXCEPT ![p] =
                                  Locals(DequeAppend(chist[p].cpu, in[1]),
                                         UpdatePerCore(chist[p].per_core, sample))]
                   /\ cpc' = [cpc EXCEPT ![p] = "save"]
                   /\ UNCHANGED cout
              ELSE /\ cpc' = [cpc EXCEPT ![p] = "done"]
                   /\ cout' = [cout EXCEPT ![p].code = 1, ![p].fault = "history"]
                   /\ UNCHANGED chist
    /\ UNCHANGED <<file, cruns, craced>>
    /\ ConcFrame

\* line 121: open(HISTORY_FILE, 'wb') truncates the file, or fails
CSaveOpen(p) ==
    /\ cpc[p] = "save"
    /\ \/ /\ file' = NoPickle("truncated")
          /\ cpc' = [cpc EXCEPT ![p] = "write"]
       \/ /\ file' = file
          /\ cpc' = [cpc EXCEPT ![p] = "click"]
    /\ UNCHANGED <<chist, cout, cruns, craced>>
    /\ ConcFrame

\* line 122: pickle.dump and close.  The whole pickle is written from
\* offset 0 (bytes of a longer file behind it are ignored by pickle.load),
\* or the write stops part-way and leaves no loadable pickle, or it fails
\* before its first byte and the file stays as it is.
CSaveWrite(p) ==
    /\ cpc[p] = "write"
    /\ \/ file' = Dump(chist[p].cpu, chist[p].per_core)
       \/ file' = NoPickle("truncated")
       \/ file' = file
    /\ cpc' = [cpc EXCEPT ![p] = "click"]
    /\ UNCHANGED <<chist, cout, cruns, craced>>
    /\ ConcFrame

\* lines 280-282
CClick(p) ==
    /\ cpc[p] = "click"
    /\ \E click \in ClickTypes, env \in EnvTerminals, ala \in BOOLEAN, xt \in BOOLEAN :
          IF click = "left" /\ Terminal(env, ala) \notin Installed(ala, xt)
          THEN /\ cpc' = [cpc EXCEPT ![p] = "done"]
               /\ cout' = [cout EXCEPT ![p].code = 1,
                                       ![p].fault = "FileNotFoundError: Popen"]
          ELSE /\ cpc' = [cpc EXCEPT ![p] = "print"]
               /\ UNCHANGED cout
    /\ UNCHANGED <<file, chist, cruns, craced>>
    /\ ConcFrame

\* lines 284-290
CPrint(p) ==
    /\ cpc[p] = "print"
    /\ cpc' = [cpc EXCEPT ![p] = "done"]
    /\ cout' = [cout EXCEPT ![p].lines = @ + 1, ![p].code = 0]
    /\ UNCHANGED <<file, chist, cruns, craced>>
    /\ ConcFrame

ConcNext ==
    \E p \in Procs :
        \/ CLoad(p) \/ CUpdate(p) \/ CSaveOpen(p) \/ CSaveWrite(p)
        \/ CClick(p) \/ CPrint(p)

SpecConc == ConcInit /\ [][ConcNext]_vars

---------------------------------------------------------------------------
(* The RAPL power block applied to every counter situation *)

EnergyVals ==
    { Big(0, 0), Big(0, 50), Big(0, 100), Big(0, 1000),
      Big(4000, 0), Big(4294, 967296), Big(8589, 934592) }
MaxRangeVals == { Big(0, 500), Big(0, 1000), Big(4294, 967296), Big(262143, 328850) }

PowerInputs ==
    { RaplIn(b, ps, r1, r2, m) :
        b \in BOOLEAN,
        ps \in { <<>>, <<"intel-rapl">>, <<"intel-rapl:1", "intel-rapl:0">> },
        r1 \in {ReadFail} \cup {ReadOk(v) : v \in EnergyVals},
        r2 \in {ReadFail} \cup {ReadOk(v) : v \in EnergyVals},
        m \in {MaxAbsent, MaxBad} \cup {MaxOk(v) : v \in MaxRangeVals} }

PowFrame == UNCHANGED <<file, seqvars, concvars, colvars>>

PowInit ==
    /\ ppc = "ready"
    /\ pin \in PowerInputs
    /\ pout = RaplNone
    /\ file = NoPickle("missing")
    /\ SeqIdle /\ ConcIdle /\ ColIdle

\* lines 156-176
PowerSample ==
    /\ ppc = "ready"
    /\ pout' = RaplBlock(pin)
    /\ ppc' = "done"
    /\ UNCHANGED pin
    /\ PowFrame

PowNext == PowerSample

SpecPower == PowInit /\ [][PowNext]_vars

---------------------------------------------------------------------------
(* get_color applied to every value of the plausible domain, in halves *)

\* 0, 0.5, 1, ... and a few values above the last band
ColorValues == 0..(2 * 999 + 6)

ColFrame == UNCHANGED <<file, seqvars, concvars, powvars>>

ColInit ==
    /\ colpc = "ready"
    /\ colvalue \in ColorValues
    /\ colkind \in MetricKinds
    /\ colresult = ""
    /\ file = NoPickle("missing")
    /\ SeqIdle /\ ConcIdle /\ PowIdle

\* get_color(value, metric_type), value = colvalue / 2
ApplyColor ==
    /\ colpc = "ready"
    /\ colresult' = get_color(colvalue, 2, colkind)
    /\ colpc' = "done"
    /\ UNCHANGED <<colvalue, colkind>>
    /\ ColFrame

ColNext == ApplyColor

SpecColor == ColInit /\ [][ColNext]_vars


---------------------------------------------------------------------------
(* Properties: one invocation after the other (Spec) *)

\* an object that is a snapshot: a mapping with a bounded FIFO under 'cpu'
\* and a mapping under 'per_core'
WellFormedSnapshot(o) ==
    o.type = "dict" /\ o.cpu.type = "deque" /\ o.per_core.type = "dict"
WellFormedFile(f) == f.kind = "pickle" /\ WellFormedSnapshot(f.obj)

\* the last n items of s
LastN(s, n) == IF Len(s) <= n THEN s ELSE SubSeq(s, Len(s) - n + 1, Len(s))

\* the sampled core count
CoreCount == Cardinality(DOMAIN per_core)
\* the per-core update of this invocation has been done
Updated == pc \in {"render", "save", "click", "print", "done"}
           /\ CanIndex(per_core_history) /\ per_core # EmptyMap
\* the tooltip of this invocation has been rendered
Rendered == pc \in {"save", "click", "print", "done"} /\ tooltip # NoTooltip
\* save_history has returned
AfterSave == pc \in {"click", "print", "done"} /\ saved # "no"

\* C1: every invocation ends with exit status 0 and exactly one JSON line
\* on stdout that has the keys text and tooltip, whatever the sensors, the
\* history file and the click type were.
C1_AlwaysOneJsonLine ==
    pc = "done" =>
        /\ exit_code = 0
        /\ Len(stdout) = 1
        /\ {"text", "tooltip"} \subseteq DOMAIN stdout[1]

\* C2: when the history file is missing, unreadable, truncated or holds
\* anything that is not a well-formed snapshot, loading does not abort the
\* invocation and it goes on with the fresh snapshot (empty FIFO of
\* capacity 50, empty core mapping).
C2_LoadFallsBackToFresh ==
    (/\ pc = "sensors" \/ (pc = "done" /\ fault = "AttributeError: get")
     /\ ~WellFormedFile(file))
    => /\ pc = "sensors"
       /\ cpu_history = CpuVal("deque", <<>>, 50)
       /\ per_core_history = PcVal("dict", EmptyMap)

\* C3: starting from any history file, the persisted FIFO never holds more
\* than W = 50 values, and after each save it is the last min(n, W) of the
\* loaded values followed by the current aggregate percentage.
C3_FifoBounded ==
    /\ (file.kind = "pickle" /\ file.obj.cpu.type \in {"deque", "list"})
          => Len(file.obj.cpu.items) <= 50
    /\ (AfterSave /\ saved = "ok")
          => file.obj.cpu.items
                = LastN(Append(GetCpu(history).items, cpu_percent), 50)

\* C5 (amended): with loaded mapping M and samples u_0..u_{k-1} the
\* invocation produces M' with M'[i] = u_i for a sampled index not in M,
\* M'[i] = M[i]*0.95 + u_i*0.05 for a sampled index in M, M'[j] = M[j] for
\* every other index of M, and no index of M missing; M' is what the file
\* holds once save_history has succeeded.
C5_EmaUpdate ==
    Updated =>
        LET M  == GetPerCore(history).map
            M2 == per_core_history.map
        IN  /\ DOMAIN M2 = (DOMAIN M) \cup (DOMAIN per_core)
            /\ \A i \in DOMAIN per_core :
                  IF i \in DOMAIN M
                  THEN 100 * M2[i] = 95 * M[i] + 5 * per_core[i]
                  ELSE M2[i] = per_core[i]
            /\ \A j \in (DOMAIN M) \ (DOMAIN per_core) : M2[j] = M[j]
            /\ (AfterSave /\ saved = "ok")
                  => (file.kind = "pickle" /\ file.obj.per_core = per_core_history)

\* C5 (as stated): the invocation produces M' by the rule above and
\* persists it: once it has ended normally the file holds M'.
C5_AlwaysPersisted ==
    /\ C5_EmaUpdate
    /\ (pc = "done" /\ exit_code = 0)
          => /\ file.kind = "pickle"
             /\ file.obj.per_core = per_core_history

\* prior EMA 50.0 and sample 60.0 gave 50.5, an unsampled index kept its
\* value, and the mapping was saved
C5_Witness ==
    /\ Updated /\ AfterSave /\ saved = "ok"
    /\ CoreCount = 4
    /\ 1 \in DOMAIN GetPerCore(history).map
    /\ GetPerCore(history).map[1] = Pct(50)
    /\ per_core[1] = Pct(60)
    /\ per_core_history.map[1] = PctHalf(50)
    /\ 5 \in DOMAIN file.obj.per_core.map
    /\ file.obj.per_core.map[5] = Pct(50)

\* C7: a grid cell of a sampled core takes marker and colour from that
\* core's EMA value as stored after this invocation's update: filled when
\* the EMA is >= 10, coloured by the 20/40/60/80/95 bands of the EMA.
C7_GridShowsEma ==
    Rendered =>
        \A row \in 1..6, col \in 1..4 :
            LET c == (row - 1) * 4 + (col - 1)
            IN  c < CoreCount =>
                  /\ tooltip.grid[row][col].color
                        = get_core_color(per_core_history.map[c])
                  /\ (tooltip.grid[row][col].circle = "filled")
                        <=> (per_core_history.map[c] >= Pct(10))

\* C8: the grid has exactly 6 rows of exactly 4 cells for every core
\* count; cell row*4+col is the marker of core row*4+col iff that index is
\* below the core count and substrate otherwise, so no core from 24 up is
\* drawn; every sampled index is in the EMA mapping handed to save_history
\* and in the file once the save has succeeded.
C8_GridShape ==
    Rendered =>
        /\ Len(tooltip.grid) = 6
        /\ \A row \in 1..Len(tooltip.grid) :
              /\ Len(tooltip.grid[row]) = 4
              /\ \A col \in 1..Len(tooltip.grid[row]) :
                    LET c == (row - 1) * 4 + (col - 1)
                        cell == tooltip.grid[row][col]
                    IN  /\ (cell.kind = "core") <=> (c < CoreCount)
                        /\ cell.kind = "core" => (cell.core = c /\ cell.core < 24)
                        /\ cell.kind # "core" => cell.kind = "substrate"
        /\ \A i \in 0..(CoreCount - 1) :
              /\ i \in DOMAIN per_core_history.map
              /\ (AfterSave /\ saved = "ok") => i \in DOMAIN file.obj.per_core.map

\* more than 24 cores were sampled, all 24 cells are markers and the last
\* core is in the saved mapping
C8_Witness ==
    /\ Rendered /\ AfterSave /\ saved = "ok"
    /\ CoreCount = MaxCores /\ CoreCount > 24
    /\ tooltip.grid[6][4].kind = "core"
    /\ (MaxCores - 1) \in DOMAIN file.obj.per_core.map

---------------------------------------------------------------------------
(* Properties: racing invocations (SpecConc) *)

\* what a process works with after its load is a bounded FIFO of at most
\* 50 values and a mapping, and no process dies on the history
RaceTolerated ==
    \A p \in Procs :
        /\ cout[p].fault \notin {"AttributeError: get", "history"}
        /\ cpc[p] \in {"update", "save", "write", "click", "print"} =>
              /\ chist[p].cpu.type = "deque"
              /\ chist[p].cpu.maxlen = TOOLTIP_WIDTH
              /\ Len(chist[p].cpu.items) <= TOOLTIP_WIDTH
              /\ chist[p].per_core.type = "dict"

\* C9: after two invocations have overlapped on the history file
\* (interrupted saves included), every later invocation loads a
\* well-formed or fresh snapshot, completes and emits its JSON line.
C9_LaterInvocationsComplete ==
    \A p \in Procs :
        cout[p].later =>
            /\ cpc[p] \in {"update", "save", "write", "click", "print"} =>
                  (chist[p].cpu.type = "deque" /\ Len(chist[p].cpu.items) <= 50
                   /\ chist[p].per_core.type = "dict")
            /\ cpc[p] = "done" => (cout[p].code = 0 /\ cout[p].lines = 1)

---------------------------------------------------------------------------
(* Properties: the power block (SpecPower) *)

\* both counter reads returned a value
BothRead ==
    /\ ppc = "done"
    /\ get_rapl_path(pin.base, pin.paths) # "None"
    /\ pin.r1.ok /\ pin.r2.ok
\* E2 < E1
Wrapped == BNeg(BSub(pin.r2.v, pin.r1.v))

\* C4: delta is E2 - E1 when E2 >= E1, else (max_range - E1) + E2 with
\* max_range the value of the max-range file when it exists and 2^32 when
\* it does not (100, 50, 1000 give 950; 4 000 000 000, 100 and no file give
\* 2^32 - 4 000 000 000 + 100 = 294 967 396); power * 0.05 s = delta / 1e6.
C4_EnergyDelta ==
    BothRead =>
        /\ ~Wrapped =>
              (pout.used /\ pout.delta = BSub(pin.r2.v, pin.r1.v))
        /\ (Wrapped /\ pin.maxf.state = "ok") =>
              (pout.used /\ pout.delta = BAdd(BSub(pin.maxf.v, pin.r1.v), pin.r2.v))
        /\ (Wrapped /\ pin.maxf.state = "absent") =>
              (pout.used /\ pout.delta
                  = BAdd(BSub(Big(4294, 967296), pin.r1.v), pin.r2.v))
        /\ (pin.r1.v = Big(0, 100) /\ pin.r2.v = Big(0, 50)
              /\ pin.maxf = MaxOk(Big(0, 1000))) => pout.delta = Big(0, 950)
        /\ (pin.r1.v = Big(4000, 0) /\ pin.r2.v = Big(0, 100)
              /\ pin.maxf = MaxAbsent) => pout.delta = Big(294, 967396)
        /\ pout.used => BMul(pout.cpu_power, 5) = BMul(pout.delta, 100)

\* the counter wrapped with a max-range file of 1000: delta 950, 0.019 W
C4_Witness ==
    /\ BothRead /\ Wrapped /\ pout.used
    /\ pin.r1.v = Big(0, 100) /\ pin.r2.v = Big(0, 50)
    /\ pin.maxf = MaxOk(Big(0, 1000))
    /\ pout.delta = Big(0, 950)
    /\ pout.cpu_power = Big(0, 19000)

\* C10: the reported power is never negative, whatever the two reads and
\* the max-range situation are, and every failure leaves it at 0.0.
C10_PowerNonNegative ==
    ppc = "done" =>
        /\ ~BNeg(pout.cpu_power)
        /\ pout.used => ~BNeg(pout.delta)
        /\ ~pout.used => pout.cpu_power = BZero

---------------------------------------------------------------------------
(* Properties: get_color (SpecColor) *)

\* the bands of the metric whose inclusive range contains colvalue / 2
Containing ==
    {i \in 1..7 : LET r == BandRange(COLOR_TABLE[i], colkind)
                  IN  2 * r[1] <= colvalue /\ colvalue <= 2 * r[2]}
AboveEveryBand ==
    \A i \in 1..7 : colvalue > 2 * BandRange(COLOR_TABLE[i], colkind)[2]

\* C6: over 0..999, halves included, the bands of a metric leave no gap:
\* get_color returns the colour of the first band containing the value,
\* and the last band's colour as a fallback only above every band.
C6_FirstBandOrAbove ==
    colpc = "done" =>
        IF Containing # {}
        THEN \E i \in Containing :
                /\ \A j \in Containing : i <= j
                /\ colresult = COLOR_TABLE[i].color
        ELSE AboveEveryBand /\ colresult = COLOR_TABLE[7].color

=============================================================================
